---- MODULE Spec2Model ----
(***************************************************************************)
(* Model of the RAG service of EnigmaCodersLangchain: the RAGEngine        *)
(* orchestrator (rag_engine.py), its lazily built process-wide instance    *)
(* (get_rag_engine) and the FastAPI handlers that drive it (main.py).      *)
(*                                                                         *)
(* Scheduling.  Every handler of main.py is an `async def` that calls the  *)
(* engine synchronously and never awaits, so a handler that has started    *)
(* keeps the event loop until it returns: requests may arrive at any time  *)
(* but run one after the other, and the startup event runs before any of   *)
(* them.  CanStart states exactly this.                                    *)
(*                                                                         *)
(* Persisted store.  The store directory holds a catalog file              *)
(* (chroma.sqlite3) and the entries.  shutil.rmtree unlinks the files; a   *)
(* handle opened before keeps reading what it had opened, so the contents  *)
(* are kept per generation of the directory and a handle remembers the     *)
(* generation it was opened on.                                            *)
(***************************************************************************)
EXTENDS Naturals, Sequences, FiniteSets

(* ------------------------------ bounds -------------------------------- *)
\* HTTP requests sent during one process lifetime (the startup event is process 0)
MaxRequests == 2
\* fragments the splitter cuts the PDF into (one upsert batch each)
NumChunks == 2

(* ------------------------- program constants -------------------------- *)
RETRIEVER_K == 3
min_length == 3
max_length == 500
PreviewLen == 200

VARIABLES
    kind,           \* kind[p]: which handler process p runs
    question,       \* question[p]: the body of a POST /query request
    pc,             \* pc[p]: where process p is in its handler
    self,           \* self[p]: the RAGEngine object p constructs or was handed (0: none)
    caller,         \* caller[p]: who called _create_vectorstore ("init" or "rebuild")
    added,          \* added[p]: batches Chroma.from_documents has written so far
    qarg,           \* qarg[p]: the argument RAGEngine.query was called with
    docs,           \* docs[p]: response["context"], the retrieved fragments
    genCalls,       \* genCalls[p]: generation calls issued for p's query
    result,         \* result[p]: what RAGEngine.query returned to p
    resp,           \* resp[p]: the HTTP response (or startup print) p ended with
    engines,        \* the RAGEngine objects constructed so far, with their fields
    rag_instance,   \* the module global _rag_instance (0: None)
    hgen,           \* hgen[h]: the store generation handle h was opened on
    store,          \* store[g]: the entries of generation g of the store directory
    catalog,        \* chroma.sqlite3 is present in the store directory
    dirExists,      \* VECTORSTORE_DIR exists
    leftover,       \* files of an earlier index lie in the directory, their catalog gone
    pdfPresent,     \* PDF_PATH exists
    constructions,  \* times RAGEngine.__init__ was entered
    initFailed,     \* an exception has left RAGEngine.__init__
    rebuildFailed   \* an exception has left RAGEngine.rebuild_vectorstore

vars == <<kind, question, pc, self, caller, added, qarg, docs, genCalls, result, resp,
          engines, rag_instance, hgen, store, catalog, dirExists, leftover, pdfPresent,
          constructions, initFailed, rebuildFailed>>

procVars == <<kind, question, pc, self, caller, added, qarg, docs, genCalls, result, resp>>
fsVars == <<store, catalog, dirExists, leftover, pdfPresent>>

(* ------------------------------- values ------------------------------- *)
Procs == 0..MaxRequests
Requests == 1..MaxRequests
None == 0

\* a text of n characters, all of them c
Text(n, c) == [i \in 1..n |-> c]

NoQuestion == <<>>
QuestionLens == {min_length - 1, min_length, max_length, max_length + 1}
Questions == {Text(n, 1) : n \in QuestionLens}
\* what a direct caller of RAGEngine.query may pass: the empty question as well
Arguments == Questions \cup {NoQuestion}

\* the deterministic result of loading and splitting the PDF: fragment ids in order
Splits == [i \in 1..NumChunks |-> i]

NoResp == [code |-> 0, status |-> "none", ready |-> FALSE]
NewEngine == [llm |-> FALSE, embeddings |-> FALSE, vectorstore |-> None, rag_chain |-> None]

\* the variables the prompt template names, and the keys the chain hands to it
PromptVars == {"context", "question"}

(* --------------------------- pure helpers ----------------------------- *)
Min(a, b) == IF a < b THEN a ELSE b

\* ValidQuestion with the lower limit off by one
ValidQuestionOffByOne(q) == Len(q) + 1 >= min_length /\ Len(q) <= max_length

\* QueryRequest: Field(min_length=3, max_length=500) on the question
ValidQuestion(q) == Len(q) >= min_length /\ Len(q) <= max_length

\* the fragment the splitter produced as number c: its text and its page metadata
PageOf(c) == IF c = 1 THEN "p0" ELSE "p1"
Document(c) == [page_content |-> Text(PreviewLen - 1 + c, c),
                metadata |-> [source |-> "pdf", page |-> PageOf(c)]]

\* _vectorstore_exists: the catalog file is in the store directory
VectorstoreExists == dirExists /\ catalog

\* what the store directory can hold when the process starts: nothing (a first
\* run), the index a previous run built, or the files of an index whose catalog
\* is gone
DirStates == {"empty", "built", "no_catalog"}

\* the generation of the store directory now on disk
storeGen == Len(store)

\* what a handle reads: the entries of the generation it was opened on
Entries(h) == store[hgen[h]]

\* as_retriever(search_kwargs={"k": RETRIEVER_K}): the k nearest entries, fewer
\* if the store holds fewer; which ones and in which order depends on the
\* embedding of the question, so every ranking is possible
Rankings(n) ==
    {r \in [1..Min(RETRIEVER_K, n) -> 1..n] :
        \A i, j \in DOMAIN r : i # j => r[i] # r[j]}
Retrieved(h) ==
    {[i \in DOMAIN r |-> Document(Entries(h)[r[i]])] : r \in Rankings(Len(Entries(h)))}

\* query, lines 143-149: one source per retrieved document, the content cut to
\* the preview length with "..." appended when it was longer
Ellipsis == <<0, 0, 0>>
\* Preview cutting a text of exactly the preview length as well
PreviewFromLimit(text) ==
    IF Len(text) >= PreviewLen THEN SubSeq(text, 1, PreviewLen) \o Ellipsis ELSE text
Preview(text) ==
    IF Len(text) > PreviewLen THEN SubSeq(text, 1, PreviewLen) \o Ellipsis ELSE text
SourceOf(doc) ==
    [page |-> IF "page" \in DOMAIN doc.metadata THEN doc.metadata.page ELSE "N/A",
     content |-> Preview(doc.page_content)]
Sources(context) == [i \in DOMAIN context |-> SourceOf(context[i])]
\* query, lines 151-155
QueryResult(answer, context, q) ==
    [answer |-> answer, sources |-> Sources(context), question |-> q]
NoResult == [answer |-> "none", sources |-> <<>>, question |-> NoQuestion]

\* ErrorResponse with the rebuild handler answering success all the same
ErrorResponseHidingRebuild(k) ==
    IF k = "startup" THEN [code |-> 0, status |-> "init_error", ready |-> FALSE]
    ELSE IF k = "script" THEN [code |-> 0, status |-> "script_error", ready |-> FALSE]
    ELSE IF k = "health" THEN [code |-> 200, status |-> "unhealthy", ready |-> FALSE]
    ELSE IF k = "rebuild" THEN [code |-> 200, status |-> "success", ready |-> TRUE]
    ELSE [code |-> 500, status |-> "error", ready |-> FALSE]

\* what each handler answers when an exception reaches its except clause
ErrorResponse(k) ==
    IF k = "startup" THEN [code |-> 0, status |-> "init_error", ready |-> FALSE]
    ELSE IF k = "script" THEN [code |-> 0, status |-> "script_error", ready |-> FALSE]
    ELSE IF k = "health" THEN [code |-> 200, status |-> "unhealthy", ready |-> FALSE]
    ELSE [code |-> 500, status |-> "error", ready |-> FALSE]

(* ------------------------------ scheduling ---------------------------- *)
Running(p) == pc[p] \notin {"idle", "pending", "done"}

\* a handler starts only when no other handler holds the event loop, and a
\* request handler only after the startup event has returned; the requests are
\* numbered in the order in which the loop takes them up
CanStart(p) ==
    /\ \A q \in Procs \ {p} : ~Running(q)
    /\ \A q \in Procs : q < p => pc[q] = "done"

(* ------------------------------- Init --------------------------------- *)
Init ==
    /\ kind = [p \in Procs |-> IF p = 0 THEN "startup" ELSE "none"]
    /\ question = [p \in Procs |-> NoQuestion]
    /\ pc = [p \in Procs |-> IF p = 0 THEN "pending" ELSE "idle"]
    /\ self = [p \in Procs |-> None]
    /\ caller = [p \in Procs |-> "none"]
    /\ added = [p \in Procs |-> 0]
    /\ qarg = [p \in Procs |-> NoQuestion]
    /\ docs = [p \in Procs |-> <<>>]
    /\ genCalls = [p \in Procs |-> 0]
    /\ result = [p \in Procs |-> NoResult]
    /\ resp = [p \in Procs |-> NoResp]
    /\ engines = <<>>
    /\ rag_instance = None
    /\ hgen = <<>>
    \* the store directory is created at import (config.py, line 20)
    /\ dirExists = TRUE
    /\ \E d \in DirStates :
         /\ catalog = (d = "built")
         /\ store = <<IF d = "built" THEN Splits ELSE <<>> >>
         /\ leftover = (d = "no_catalog")
    /\ pdfPresent \in BOOLEAN
    /\ constructions = 0
    /\ initFailed = FALSE
    /\ rebuildFailed = FALSE

(* ------------------------- exception propagation ---------------------- *)
\* an exception raised in stage ("init", "rebuild" or "query") propagates to
\* the handler's except clause, which answers and returns
Raise(p, stage) ==
    /\ pc' = [pc EXCEPT ![p] = "done"]
    /\ resp' = [resp EXCEPT ![p] = ErrorResponse(kind[p])]
    /\ initFailed' = (initFailed \/ stage = "init")
    /\ rebuildFailed' = (rebuildFailed \/ stage = "rebuild")

NoRaise == UNCHANGED <<initFailed, rebuildFailed>>

(* ------------------------------ requests ------------------------------ *)
\* a client sends a request; FastAPI validates the body of POST /query against
\* QueryRequest before the handler is called and answers 422 when it fails
Arrive(p, k, q) ==
    /\ pc[p] = "idle"
    /\ p > 1 => pc[p - 1] # "idle"
    /\ k # "query" => q = NoQuestion
    /\ kind' = [kind EXCEPT ![p] = k]
    /\ question' = [question EXCEPT ![p] = q]
    /\ IF k = "query" /\ ~ValidQuestion(q)
       THEN /\ pc' = [pc EXCEPT ![p] = "done"]
            /\ resp' = [resp EXCEPT ![p] = [code |-> 422, status |-> "invalid", ready |-> FALSE]]
       ELSE /\ pc' = [pc EXCEPT ![p] = "pending"]
            /\ UNCHANGED resp
    /\ UNCHANGED <<self, caller, added, qarg, docs, genCalls, result, engines, rag_instance,
                   hgen, fsVars, constructions, initFailed, rebuildFailed>>

(* ---------------------------- get_rag_engine -------------------------- *)
\* GetRagEngine without the `is None` test: every call constructs
GetRagEngineAlwaysConstructs(p) ==
    /\ pc[p] = "pending"
    /\ CanStart(p)
    /\ engines' = Append(engines, NewEngine)
    /\ self' = [self EXCEPT ![p] = Len(engines) + 1]
    /\ constructions' = constructions + 1
    /\ pc' = [pc EXCEPT ![p] = "init"]
    /\ UNCHANGED <<kind, question, caller, added, qarg, docs, genCalls, result, resp,
                   rag_instance, hgen, fsVars, initFailed, rebuildFailed>>

\* get_rag_engine, lines 184-186, and the head of RAGEngine.__init__, 35-42
GetRagEngine(p) ==
    /\ pc[p] = "pending"
    /\ CanStart(p)
    /\ IF rag_instance = None
       THEN /\ engines' = Append(engines, NewEngine)
            /\ self' = [self EXCEPT ![p] = Len(engines) + 1]
            /\ constructions' = constructions + 1
            /\ pc' = [pc EXCEPT ![p] = "init"]
       ELSE /\ self' = [self EXCEPT ![p] = rag_instance]
            /\ pc' = [pc EXCEPT ![p] = "got"]
            /\ UNCHANGED <<engines, constructions>>
    /\ UNCHANGED <<kind, question, caller, added, qarg, docs, genCalls, result, resp,
                   rag_instance, hgen, fsVars, initFailed, rebuildFailed>>

\* Initialize without the existence test: the store is always created
InitializeAlwaysCreates(p) ==
    /\ pc[p] = "init"
    /\ engines' = [engines EXCEPT ![self[p]].llm = TRUE, ![self[p]].embeddings = TRUE]
    /\ caller' = [caller EXCEPT ![p] = "init"]
    /\ pc' = [pc EXCEPT ![p] = "create"]
    /\ UNCHANGED <<kind, question, self, added, qarg, docs, genCalls, result, resp,
                   rag_instance, hgen, fsVars, constructions, initFailed, rebuildFailed>>

\* _initialize, lines 48-65: the model clients, then load or create
Initialize(p) ==
    /\ pc[p] = "init"
    /\ engines' = [engines EXCEPT ![self[p]].llm = TRUE, ![self[p]].embeddings = TRUE]
    /\ caller' = [caller EXCEPT ![p] = "init"]
    /\ pc' = [pc EXCEPT ![p] = IF VectorstoreExists THEN "load" ELSE "create"]
    /\ UNCHANGED <<kind, question, self, added, qarg, docs, genCalls, result, resp,
                   rag_instance, hgen, fsVars, constructions, initFailed, rebuildFailed>>

\* _load_vectorstore: opens the persisted store, or fails when it is unreadable
LoadVectorstore(p) ==
    /\ pc[p] = "load"
    /\ \/ /\ hgen' = Append(hgen, storeGen)
          /\ engines' = [engines EXCEPT ![self[p]].vectorstore = Len(hgen) + 1]
          /\ pc' = [pc EXCEPT ![p] = "chain"]
          /\ NoRaise
          /\ UNCHANGED resp
       \/ /\ Raise(p, caller[p])
          /\ UNCHANGED <<hgen, engines>>
    /\ UNCHANGED <<kind, question, self, caller, added, qarg, docs, genCalls, result,
                   rag_instance, fsVars, constructions>>

(* -------------------------- _create_vectorstore ----------------------- *)
\* lines 84-103: the PDF must exist; loading and splitting it may fail
LoadAndSplit(p) ==
    /\ pc[p] = "create"
    /\ \/ /\ pdfPresent
          /\ pc' = [pc EXCEPT ![p] = "from_documents"]
          /\ NoRaise
          /\ UNCHANGED resp
       \/ Raise(p, caller[p])
    /\ UNCHANGED <<kind, question, self, caller, added, qarg, docs, genCalls, result, engines,
                   rag_instance, hgen, fsVars, constructions>>

\* line 107, Chroma.from_documents, first half: the client opens the persist
\* directory, creating it and its catalog file when they are missing
OpenStore(p) ==
    /\ pc[p] = "from_documents"
    /\ dirExists' = TRUE
    /\ catalog' = TRUE
    /\ added' = [added EXCEPT ![p] = 0]
    /\ pc' = [pc EXCEPT ![p] = "add"]
    /\ UNCHANGED <<kind, question, self, caller, qarg, docs, genCalls, result, resp, engines,
                   rag_instance, hgen, store, leftover, pdfPresent, constructions,
                   initFailed, rebuildFailed>>

\* line 107, second half: each batch is embedded and written to the entries
\* already there; the embedding provider may fail on any batch
AddBatch(p) ==
    /\ pc[p] = "add"
    /\ added[p] < Len(Splits)
    /\ \/ /\ store' = [store EXCEPT ![storeGen] = Append(@, Splits[added[p] + 1])]
          /\ added' = [added EXCEPT ![p] = @ + 1]
          /\ NoRaise
          /\ UNCHANGED <<pc, resp>>
       \/ /\ Raise(p, caller[p])
          /\ UNCHANGED <<store, added>>
    /\ UNCHANGED <<kind, question, self, caller, qarg, docs, genCalls, result, engines,
                   rag_instance, hgen, catalog, dirExists, leftover, pdfPresent,
                   constructions>>

\* line 107, the assignment: self.vectorstore is the handle of the store just built
StoreBuilt(p) ==
    /\ pc[p] = "add"
    /\ added[p] = Len(Splits)
    /\ hgen' = Append(hgen, storeGen)
    /\ engines' = [engines EXCEPT ![self[p]].vectorstore = Len(hgen) + 1]
    /\ pc' = [pc EXCEPT ![p] = "chain"]
    /\ UNCHANGED <<kind, question, self, caller, added, qarg, docs, genCalls, result, resp,
                   rag_instance, fsVars, constructions, initFailed, rebuildFailed>>

(* --------------------------- _create_rag_chain ------------------------ *)
\* CreateRagChain wiring the chain at construction only: a rebuild keeps the
\* chain it had
CreateRagChainOnlyAtInit(p) ==
    /\ pc[p] = "chain"
    /\ engines' = IF caller[p] = "init"
                  THEN [engines EXCEPT ![self[p]].rag_chain = engines[self[p]].vectorstore]
                  ELSE engines
    /\ pc' = [pc EXCEPT ![p] = IF caller[p] = "init" THEN "assign" ELSE "rebuilt"]
    /\ UNCHANGED <<kind, question, self, caller, added, qarg, docs, genCalls, result, resp,
                   rag_instance, hgen, fsVars, constructions, initFailed, rebuildFailed>>

\* lines 117-126: the retriever of the chain is bound to the current handle
CreateRagChain(p) ==
    /\ pc[p] = "chain"
    /\ engines' = [engines EXCEPT ![self[p]].rag_chain = engines[self[p]].vectorstore]
    /\ pc' = [pc EXCEPT ![p] = IF caller[p] = "init" THEN "assign" ELSE "rebuilt"]
    /\ UNCHANGED <<kind, question, self, caller, added, qarg, docs, genCalls, result, resp,
                   rag_instance, hgen, fsVars, constructions, initFailed, rebuildFailed>>

\* get_rag_engine, lines 186-187: the constructed engine becomes the instance
AssignInstance(p) ==
    /\ pc[p] = "assign"
    /\ rag_instance' = self[p]
    /\ caller' = [caller EXCEPT ![p] = "none"]
    /\ pc' = [pc EXCEPT ![p] = "got"]
    /\ UNCHANGED <<kind, question, self, added, qarg, docs, genCalls, result, resp, engines,
                   hgen, fsVars, constructions, initFailed, rebuildFailed>>

(* ------------------------------ handlers ------------------------------ *)
\* startup_event, lines 105-107
StartupDone(p) ==
    /\ pc[p] = "got"
    /\ kind[p] = "startup"
    /\ pc' = [pc EXCEPT ![p] = "done"]
    /\ resp' = [resp EXCEPT ![p] = [code |-> 0, status |-> "ready", ready |-> TRUE]]
    /\ UNCHANGED <<kind, question, self, caller, added, qarg, docs, genCalls, result, engines,
                   rag_instance, hgen, fsVars, constructions, initFailed, rebuildFailed>>

\* health_check, lines 135-141
HealthCheck(p) ==
    /\ pc[p] = "got"
    /\ kind[p] = "health"
    /\ pc' = [pc EXCEPT ![p] = "done"]
    /\ resp' = [resp EXCEPT ![p] = [code |-> 200, status |-> "healthy",
                                    ready |-> engines[self[p]].vectorstore # None]]
    /\ UNCHANGED <<kind, question, self, caller, added, qarg, docs, genCalls, result, engines,
                   rag_instance, hgen, fsVars, constructions, initFailed, rebuildFailed>>

\* query_constitution, line 164: engine.query(request.question)
QueryCall(p) ==
    /\ pc[p] = "got"
    /\ kind[p] = "query"
    /\ qarg' = [qarg EXCEPT ![p] = question[p]]
    /\ pc' = [pc EXCEPT ![p] = "invoke"]
    /\ UNCHANGED <<kind, question, self, caller, added, docs, genCalls, result, resp, engines,
                   rag_instance, hgen, fsVars, constructions, initFailed, rebuildFailed>>

\* query, line 141, the retrieval half of rag_chain.invoke({"input": question}):
\* the question is embedded and the retriever searches through its handle
Retrieve(p) ==
    /\ pc[p] = "invoke"
    /\ \/ /\ \E ds \in Retrieved(engines[self[p]].rag_chain) :
                docs' = [docs EXCEPT ![p] = ds]
          /\ pc' = [pc EXCEPT ![p] = "prompt"]
          /\ NoRaise
          /\ UNCHANGED resp
       \/ /\ Raise(p, "query")
          /\ UNCHANGED docs
    /\ UNCHANGED <<kind, question, self, caller, added, qarg, genCalls, result, engines,
                   rag_instance, hgen, fsVars, constructions>>

\* create_stuff_documents_chain: the texts of the retrieved documents, joined
Separator == <<0, 0>>
FormatDocs(ds) ==
    LET Join[i \in 0..Len(ds)] ==
            IF i = 0 THEN <<>>
            ELSE IF i = 1 THEN ds[1].page_content
            ELSE Join[i - 1] \o Separator \o ds[i].page_content
    IN Join[Len(ds)]

\* what the prompt is rendered from: the chain input of line 141, {"input":
\* question}, to which create_retrieval_chain adds "context"
PromptInput(q, ds) == [input |-> q, context |-> FormatDocs(ds)]

\* Generate dropping the chain of the engine when the call fails
GenerateDroppingChain(p) ==
    /\ pc[p] = "prompt"
    /\ Raise(p, "query")
    /\ engines' = [engines EXCEPT ![self[p]].rag_chain = None]
    /\ UNCHANGED <<kind, question, self, caller, added, qarg, docs, genCalls, result,
                   rag_instance, hgen, fsVars, constructions>>

\* query, line 141, the generation half of rag_chain.invoke: the prompt template
\* is rendered from the prompt input (a variable it names and the input lacks is
\* a KeyError) and one generation call is issued, which may fail
Generate(p) ==
    /\ pc[p] = "prompt"
    /\ IF PromptVars \subseteq DOMAIN PromptInput(qarg[p], docs[p])
       THEN /\ genCalls' = [genCalls EXCEPT ![p] = @ + 1]
            /\ \/ /\ pc' = [pc EXCEPT ![p] = "sources"]
                  /\ NoRaise
                  /\ UNCHANGED resp
               \/ Raise(p, "query")
       ELSE /\ Raise(p, "query")
            /\ UNCHANGED genCalls
    /\ UNCHANGED <<kind, question, self, caller, added, qarg, docs, result, engines,
                   rag_instance, hgen, fsVars, constructions>>

\* query, lines 143-158: the sources are extracted from response["context"] and
\* the result is assembled and returned
AssembleResult(p) ==
    /\ pc[p] = "sources"
    /\ result' = [result EXCEPT ![p] = QueryResult("answer", docs[p], qarg[p])]
    /\ pc' = [pc EXCEPT ![p] = "respond"]
    /\ UNCHANGED <<kind, question, self, caller, added, qarg, docs, genCalls, resp,
                   engines, rag_instance, hgen, fsVars, constructions,
                   initFailed, rebuildFailed>>

\* query_constitution, lines 167-171
QueryRespond(p) ==
    /\ pc[p] = "respond"
    /\ kind[p] = "query"
    /\ pc' = [pc EXCEPT ![p] = "done"]
    /\ resp' = [resp EXCEPT ![p] = [code |-> 200, status |-> "answer", ready |-> TRUE]]
    /\ UNCHANGED <<kind, question, self, caller, added, qarg, docs, genCalls, result,
                   engines, rag_instance, hgen, fsVars, constructions,
                   initFailed, rebuildFailed>>

(* ------------------------- rebuild_vectorstore ------------------------ *)
\* RebuildDelete without the deletion: ingestion runs on the store as it is
RebuildDeleteKeepingStore(p) ==
    /\ pc[p] = "got"
    /\ kind[p] = "rebuild"
    /\ caller' = [caller EXCEPT ![p] = "rebuild"]
    /\ pc' = [pc EXCEPT ![p] = "create"]
    /\ UNCHANGED <<kind, question, self, added, qarg, docs, genCalls, result, resp,
                   engines, rag_instance, hgen, fsVars, constructions,
                   initFailed, rebuildFailed>>

\* RebuildDelete forgetting the handle of the index it removes: a rebuild that
\* fails later leaves the engine without a store handle
RebuildDeleteDroppingHandle(p) ==
    /\ pc[p] = "got"
    /\ kind[p] = "rebuild"
    /\ \/ /\ IF dirExists
             THEN /\ store' = Append(store, <<>>)
                  /\ catalog' = FALSE
                  /\ leftover' = FALSE
             ELSE UNCHANGED <<store, catalog, leftover>>
          /\ engines' = [engines EXCEPT ![self[p]].vectorstore = None]
          /\ caller' = [caller EXCEPT ![p] = "rebuild"]
          /\ pc' = [pc EXCEPT ![p] = "create"]
          /\ NoRaise
          /\ UNCHANGED resp
       \/ /\ dirExists
          /\ Raise(p, "rebuild")
          /\ UNCHANGED <<store, catalog, leftover, caller, engines>>
    /\ UNCHANGED <<kind, question, self, added, qarg, docs, genCalls, result,
                   rag_instance, hgen, dirExists, pdfPresent, constructions>>

\* RAGEngine.rebuild_vectorstore, lines 166-168: the store directory is removed
\* with all it holds and made again.  rmtree raises at the first file it cannot
\* remove: before it has removed anything, or after it has removed the catalog
\* and not the other files of the index.
RebuildDelete(p) ==
    /\ pc[p] = "got"
    /\ kind[p] = "rebuild"
    /\ \/ /\ IF dirExists
             THEN /\ store' = Append(store, <<>>)
                  /\ catalog' = FALSE
                  /\ leftover' = FALSE
             ELSE UNCHANGED <<store, catalog, leftover>>
          /\ caller' = [caller EXCEPT ![p] = "rebuild"]
          /\ pc' = [pc EXCEPT ![p] = "create"]
          /\ NoRaise
          /\ UNCHANGED resp
       \/ /\ dirExists
          /\ Raise(p, "rebuild")
          /\ UNCHANGED <<store, catalog, leftover, caller>>
       \/ /\ dirExists /\ catalog
          /\ store' = Append(store, <<>>)
          /\ catalog' = FALSE
          /\ leftover' = TRUE
          /\ Raise(p, "rebuild")
          /\ UNCHANGED caller
    /\ UNCHANGED <<kind, question, self, added, qarg, docs, genCalls, result, engines,
                   rag_instance, hgen, dirExists, pdfPresent, constructions>>

\* main.py rebuild_vectorstore, lines 190-193
RebuildRespond(p) ==
    /\ pc[p] = "rebuilt"
    /\ pc' = [pc EXCEPT ![p] = "done"]
    /\ caller' = [caller EXCEPT ![p] = "none"]
    /\ resp' = [resp EXCEPT ![p] = [code |-> 200, status |-> "success", ready |-> TRUE]]
    /\ UNCHANGED <<kind, question, self, added, qarg, docs, genCalls, result, engines,
                   rag_instance, hgen, fsVars, constructions, initFailed, rebuildFailed>>

(* ------------------------------- Next --------------------------------- *)
Kinds == {"health", "query", "rebuild"}

\* AssembleResult and QueryRespond follow a rag_chain.invoke that returned.  In
\* the service Generate always raises, the template naming a variable its input
\* lacks, so these two steps are taken in SpecResult, from every response
\* invoke could return.
Next ==
    \/ \E p \in Requests, k \in Kinds, q \in Questions \cup {NoQuestion} : Arrive(p, k, q)
    \/ \E p \in Procs : GetRagEngine(p)
    \/ \E p \in Procs : Initialize(p)
    \/ \E p \in Procs : LoadVectorstore(p)
    \/ \E p \in Procs : LoadAndSplit(p)
    \/ \E p \in Procs : OpenStore(p)
    \/ \E p \in Procs : AddBatch(p)
    \/ \E p \in Procs : StoreBuilt(p)
    \/ \E p \in Procs : CreateRagChain(p)
    \/ \E p \in Procs : AssignInstance(p)
    \/ \E p \in Procs : StartupDone(p)
    \/ \E p \in Procs : HealthCheck(p)
    \/ \E p \in Procs : QueryCall(p)
    \/ \E p \in Procs : Retrieve(p)
    \/ \E p \in Procs : Generate(p)
    \/ \E p \in Procs : RebuildDelete(p)
    \/ \E p \in Procs : RebuildRespond(p)

Spec == Init /\ [][Next]_vars

(***************************************************************************)
(* SpecEngine: the engine driven by a direct caller, as the script at the  *)
(* end of rag_engine.py does (lines 199-203): get_rag_engine(), then       *)
(* engine.query(question).  No HTTP adapter stands between the caller and  *)
(* RAGEngine.query, so the question is whatever the caller passes.         *)
(***************************************************************************)
InitEngine ==
    /\ kind = [p \in Procs |-> IF p = 0 THEN "script" ELSE "none"]
    /\ question \in {[p \in Procs |-> IF p = 0 THEN q ELSE NoQuestion] : q \in Arguments}
    /\ pc = [p \in Procs |-> IF p = 0 THEN "pending" ELSE "idle"]
    /\ self = [p \in Procs |-> None]
    /\ caller = [p \in Procs |-> "none"]
    /\ added = [p \in Procs |-> 0]
    /\ qarg = [p \in Procs |-> NoQuestion]
    /\ docs = [p \in Procs |-> <<>>]
    /\ genCalls = [p \in Procs |-> 0]
    /\ result = [p \in Procs |-> NoResult]
    /\ resp = [p \in Procs |-> NoResp]
    /\ engines = <<>>
    /\ rag_instance = None
    /\ hgen = <<>>
    /\ dirExists = TRUE
    /\ \E d \in DirStates :
         /\ catalog = (d = "built")
         /\ store = <<IF d = "built" THEN Splits ELSE <<>> >>
         /\ leftover = (d = "no_catalog")
    /\ pdfPresent \in BOOLEAN
    /\ constructions = 0
    /\ initFailed = FALSE
    /\ rebuildFailed = FALSE

\* rag_engine.py, line 203: result = engine.query(<question>)
ScriptQuery(p) ==
    /\ pc[p] = "got"
    /\ kind[p] = "script"
    /\ qarg' = [qarg EXCEPT ![p] = question[p]]
    /\ pc' = [pc EXCEPT ![p] = "invoke"]
    /\ UNCHANGED <<kind, question, self, caller, added, docs, genCalls, result, resp,
                   engines, rag_instance, hgen, fsVars, constructions,
                   initFailed, rebuildFailed>>

NextEngine ==
    \/ \E p \in Procs : GetRagEngine(p)
    \/ \E p \in Procs : Initialize(p)
    \/ \E p \in Procs : LoadVectorstore(p)
    \/ \E p \in Procs : LoadAndSplit(p)
    \/ \E p \in Procs : OpenStore(p)
    \/ \E p \in Procs : AddBatch(p)
    \/ \E p \in Procs : StoreBuilt(p)
    \/ \E p \in Procs : CreateRagChain(p)
    \/ \E p \in Procs : AssignInstance(p)
    \/ \E p \in Procs : ScriptQuery(p)
    \/ \E p \in Procs : Retrieve(p)
    \/ \E p \in Procs : Generate(p)

SpecEngine == InitEngine /\ [][NextEngine]_vars

(***************************************************************************)
(* SpecResult: the tail of a query, lines 143-158 of rag_engine.py and     *)
(* 167-171 of main.py, applied to every response rag_chain.invoke can      *)
(* return within the bounds: a context of at most MaxDocs documents whose  *)
(* texts are shorter than, as long as and longer than the preview length,  *)
(* with and without page metadata.                                         *)
(***************************************************************************)
MaxDocs == 2

DocLens == {0, PreviewLen - 1, PreviewLen, PreviewLen + 1, PreviewLen + 2}
Metadatas == {[source |-> "pdf", page |-> "p0"], [source |-> "pdf"]}
Documents == {[page_content |-> Text(n, 1), metadata |-> m] : n \in DocLens, m \in Metadatas}
Contexts == UNION {[1..n -> Documents] : n \in 0..MaxDocs}

InitResult ==
    /\ kind = [p \in Procs |-> IF p = 0 THEN "startup" ELSE IF p = 1 THEN "query" ELSE "none"]
    /\ \E q \in {x \in Questions : ValidQuestion(x)} :
         /\ question = [p \in Procs |-> IF p = 1 THEN q ELSE NoQuestion]
         /\ qarg = [p \in Procs |-> IF p = 1 THEN q ELSE NoQuestion]
    /\ pc = [p \in Procs |-> IF p = 0 THEN "done" ELSE IF p = 1 THEN "sources" ELSE "idle"]
    /\ self = [p \in Procs |-> IF p = 2 THEN None ELSE 1]
    /\ caller = [p \in Procs |-> "none"]
    /\ added = [p \in Procs |-> 0]
    /\ \E c \in Contexts : docs = [p \in Procs |-> IF p = 1 THEN c ELSE <<>>]
    /\ genCalls = [p \in Procs |-> IF p = 1 THEN 1 ELSE 0]
    /\ result = [p \in Procs |-> NoResult]
    /\ resp = [p \in Procs |-> IF p = 0 THEN [code |-> 0, status |-> "ready", ready |-> TRUE]
                                ELSE NoResp]
    /\ engines = <<[llm |-> TRUE, embeddings |-> TRUE, vectorstore |-> 1, rag_chain |-> 1]>>
    /\ rag_instance = 1
    /\ hgen = <<1>>
    /\ dirExists = TRUE
    /\ catalog = TRUE
    /\ store = <<Splits>>
    /\ leftover = FALSE
    /\ pdfPresent \in BOOLEAN
    /\ constructions = 1
    /\ initFailed = FALSE
    /\ rebuildFailed = FALSE

NextResult ==
    \/ \E p \in Procs : AssembleResult(p)
    \/ \E p \in Procs : QueryRespond(p)

SpecResult == InitResult /\ [][NextResult]_vars

(***************************************************************************)
(*                              The claims                                 *)
(***************************************************************************)
QueryPcs == {"invoke", "prompt", "sources"}
Built(e) == engines[e].vectorstore # None /\ engines[e].rag_chain # None
Quiescent == \A p \in Procs : ~Running(p)

\* C1: the construction path of RAGEngine is entered at most once in the life
\* of the process, and every engine get_rag_engine hands out is fully built.
C1_ConstructedAtMostOnce ==
    /\ constructions <= 1
    /\ \A p \in Procs : pc[p] = "got" => Built(self[p])

\* C2: no query retrieves while a rebuild is running, nor between the deletion
\* of the persisted index and the re-wiring of the chain: a query in retrieval
\* reads through a chain wired to the store generation now on disk.
C2_NoQueryInRebuildWindow ==
    \A p \in Procs :
        pc[p] \in QueryPcs =>
            /\ \A q \in Procs : ~(Running(q) /\ caller[q] = "rebuild")
            /\ hgen[engines[self[p]].rag_chain] = storeGen

\* C3: once a rebuild has failed the orchestrator no longer serves: no query is
\* run through the chain that was wired before the rebuild.
C3_FailedRebuildStopsServing ==
    rebuildFailed => \A p \in Procs : pc[p] \notin QueryPcs

\* C4: a failed initialization is final: from then on no request enters the
\* construction path again and no instance is ever published.
C4_FailedIsTerminal ==
    [][initFailed => (constructions' = constructions /\ rag_instance' = None)]_vars

\* C5: whenever no handler is running, the existence signal is true exactly when
\* the persisted index is completely built.
C5_ExistsIffComplete ==
    Quiescent => (VectorstoreExists <=> store[storeGen] = Splits)

\* C6: when the prompt is rendered for a query, every variable the template
\* names is supplied by the chain input.
C6_TemplateVariablesSupplied ==
    \A p \in Procs :
        pc[p] = "prompt" => PromptVars \subseteq DOMAIN PromptInput(qarg[p], docs[p])

\* C7: a POST /query whose question is shorter than 3 or longer than 500 is
\* answered 422 without acquiring the engine, retrieving or generating; a
\* question of 3..500 characters is not rejected and is the argument
\* RAGEngine.query receives.
C7_ValidationBeforeEngine ==
    \A p \in Requests :
        kind[p] = "query" =>
            IF Len(question[p]) < min_length \/ Len(question[p]) > max_length
            THEN /\ pc[p] = "done"
                 /\ resp[p].code = 422
                 /\ self[p] = None
                 /\ qarg[p] = NoQuestion
                 /\ docs[p] = <<>>
                 /\ genCalls[p] = 0
            ELSE /\ resp[p].code # 422
                 /\ pc[p] \in QueryPcs => qarg[p] = question[p]

\* a question of 501 characters has been rejected and one of 500 is in retrieval
C7_Witness ==
    \E p, q \in Requests :
        /\ kind[p] = "query" /\ Len(question[p]) = max_length + 1 /\ resp[p].code = 422
        /\ kind[q] = "query" /\ Len(question[q]) = max_length /\ pc[q] = "invoke"

\* C8: RAGEngine.query never hands an empty question to the chain, whoever
\* the caller is.
C8_EmptyQuestionRejected ==
    \A p \in Procs : pc[p] \in QueryPcs => qarg[p] # <<>>

\* C9: a step of RAGEngine.query, whether it succeeds or raises, leaves the
\* instance, the fields of every engine, the handles, the persisted store and
\* the failure record as they were.
C9_QueryLeavesStateUnchanged ==
    [][\A p \in Procs :
          (pc[p] \in QueryPcs /\ pc'[p] # pc[p]) =>
              UNCHANGED <<engines, rag_instance, hgen, store, catalog, dirExists,
                          pdfPresent, constructions, initFailed, rebuildFailed>>]_vars

\* a query has retrieved its documents and then failed
C9_Witness ==
    \E p \in Requests :
        /\ kind[p] = "query" /\ pc[p] = "done" /\ resp[p].code = 500
        /\ docs[p] # <<>>

\* C10: the result of a query has one source per retrieved document, in
\* retrieval order; a text of at most 200 characters is the source content
\* unchanged, a longer one is cut to its first 200 characters followed by
\* "..."; the source carries the page of the document, and the question of
\* the result is the question asked.
C10_SourcesPreview ==
    \A p \in Procs :
        pc[p] = "respond" =>
            LET r == result[p]
                c == docs[p]
            IN /\ r.question = question[p]
               /\ Len(r.sources) = Len(c)
               /\ \A i \in 1..Len(c) :
                    LET text == c[i].page_content
                        got == r.sources[i].content
                    IN /\ Len(text) <= PreviewLen => got = text
                       /\ Len(text) > PreviewLen =>
                            /\ Len(got) = PreviewLen + 3
                            /\ \A k \in 1..PreviewLen : got[k] = text[k]
                            /\ \A k \in 1..3 : got[PreviewLen + k] = Ellipsis[k]
                       /\ "page" \in DOMAIN c[i].metadata =>
                            r.sources[i].page = c[i].metadata.page

\* a result was assembled from a document of exactly 200 characters followed by
\* a longer one
C10_Witness ==
    \E p \in Procs :
        /\ pc[p] = "respond"
        /\ Len(docs[p]) = 2
        /\ Len(docs[p][1].page_content) = PreviewLen
        /\ Len(docs[p][2].page_content) > PreviewLen
        /\ Len(result[p].sources) = 2

\* C11: once an instance has been published it stays the instance: no step
\* replaces it or constructs another engine object (a rebuild changes the
\* fields of that object), and every later get_rag_engine call returns it.
C11_SingleInstance ==
    [][rag_instance # None =>
          /\ rag_instance' = rag_instance
          /\ constructions' = constructions
          /\ Len(engines') = Len(engines)
          /\ \A p \in Procs :
                (pc[p] = "pending" /\ pc'[p] # "pending") =>
                    (pc'[p] = "got" /\ self'[p] = rag_instance)]_vars

\* a rebuild has succeeded on the instance and the next request was handed it
C11_Witness ==
    \E p, q \in Requests :
        /\ p < q
        /\ kind[p] = "rebuild" /\ resp[p].status = "success"
        /\ pc[q] = "got" /\ self[q] = rag_instance
        /\ constructions = 1

\* C12: when two rebuilds in a row have both succeeded, the index the second
\* leaves holds the same entries, in number and in text, as the index the
\* first left: the fragments of the document, each once.
C12_RebuildIdempotent ==
    \A p \in Requests :
        (/\ p > 1
         /\ kind[p - 1] = "rebuild" /\ resp[p - 1].status = "success"
         /\ kind[p] = "rebuild" /\ pc[p] = "rebuilt") =>
            /\ store[storeGen] = Splits
            /\ storeGen > 1
            /\ store[storeGen] = store[storeGen - 1]

\* the second of two successful rebuilds has just finished
C12_Witness ==
    \E p \in Requests :
        /\ p > 1
        /\ kind[p - 1] = "rebuild" /\ resp[p - 1].status = "success"
        /\ kind[p] = "rebuild" /\ pc[p] = "rebuilt"
        /\ storeGen >= 3

\* C13: every query served by a ready engine whose retrieval returned documents
\* completes: it is answered 200 with a result carrying its own question and
\* one source per document it retrieved.
C13_QueriesComplete ==
    \A p \in Requests :
        (kind[p] = "query" /\ pc[p] = "done" /\ docs[p] # <<>>) =>
            /\ resp[p].code = 200
            /\ result[p].question = question[p]
            /\ Len(result[p].sources) = Len(docs[p])

\* C14: a POST /query or POST /rebuild-vectorstore handler that ends on an
\* exception, wherever it was raised, answers 500 with an error detail; it
\* answers 200 only when it ends from the last step of the operation.
C14_FailuresAnswered500 ==
    [][\A p \in Requests :
          (kind[p] \in {"query", "rebuild"} /\ Running(p) /\ pc'[p] = "done") =>
              IF pc[p] \in {"respond", "rebuilt"}
              THEN resp'[p].code = 200
              ELSE resp'[p].code = 500 /\ resp'[p].status = "error"]_vars

\* a rebuild that failed and a query that failed in the engine were both
\* answered 500
C14_Witness ==
    \E p, q \in Requests :
        /\ kind[p] = "rebuild" /\ kind[q] = "query"
        /\ rebuildFailed
        /\ resp[p].code = 500
        /\ resp[q].code = 500 /\ qarg[q] # NoQuestion

\* C15: a construction tests the existence signal; when the store exists it is
\* loaded and nothing is written to it; when it does not, the PDF is loaded and
\* split, then the store is opened, then the batches are embedded and added in
\* order; the instance is published only with its handle and its chain set.
C15_LoadOrIngestThenReady ==
    [][/\ \A p \in Procs :
            /\ (pc[p] = "init" /\ pc'[p] # "init") =>
                    pc'[p] = IF dirExists /\ catalog THEN "load" ELSE "create"
            /\ (pc[p] = "load" /\ pc'[p] # "load") =>
                    /\ pc'[p] \in {"chain", "done"}
                    /\ UNCHANGED <<store, catalog, dirExists>>
            /\ (caller[p] = "init" /\ pc[p] = "create" /\ pc'[p] # "create") =>
                    pc'[p] \in {"from_documents", "done"}
            /\ (caller[p] = "init" /\ pc[p] = "from_documents" /\ pc'[p] # "from_documents") =>
                    pc'[p] = "add" /\ added'[p] = 0
            /\ (caller[p] = "init" /\ pc[p] = "add" /\ pc'[p] = "chain") =>
                    added[p] = Len(Splits)
       /\ rag_instance' # None =>
            /\ engines'[rag_instance'].vectorstore # None
            /\ engines'[rag_instance'].rag_chain # None]_vars

\* the startup construction found no store, ingested the whole document and
\* published the instance
C15_Witness ==
    /\ rag_instance # None
    /\ added[0] = Len(Splits)
    /\ store[1] = Splits
    /\ Built(rag_instance)

\* C16: a rebuild starts ingestion on a deleted index; when it has succeeded the
\* store holds the fragments again, the existence signal is true and the chain
\* is wired to the handle of the new store; a query that follows it retrieves
\* through that handle, the newest one, on the store now on disk.
C16_RebuildReplacesStore ==
    /\ \A p \in Requests :
          (caller[p] = "rebuild" /\ pc[p] \in {"create", "from_documents"}) =>
              store[storeGen] = <<>> /\ ~catalog
    /\ \A p \in Requests :
          (kind[p] = "rebuild" /\ pc[p] = "rebuilt") =>
              /\ store[storeGen] = Splits
              /\ VectorstoreExists
              /\ engines[self[p]].rag_chain = engines[self[p]].vectorstore
              /\ engines[self[p]].rag_chain = Len(hgen)
              /\ hgen[Len(hgen)] = storeGen
    /\ \A p \in Requests :
          (/\ p > 1
           /\ kind[p - 1] = "rebuild" /\ resp[p - 1].status = "success"
           /\ kind[p] = "query" /\ pc[p] \in QueryPcs) =>
              /\ engines[self[p]].rag_chain = Len(hgen)
              /\ hgen[engines[self[p]].rag_chain] = storeGen
              /\ store[storeGen] = Splits
              /\ VectorstoreExists

\* a query is retrieving right after a rebuild that succeeded on a store the
\* engine had loaded before
C16_Witness ==
    \E p \in Requests :
        /\ p > 1
        /\ kind[p - 1] = "rebuild" /\ resp[p - 1].status = "success"
        /\ kind[p] = "query" /\ pc[p] = "invoke"
        /\ Len(hgen) >= 2

\* the store directory holds no file
DirectoryEmpty == store[storeGen] = <<>> /\ ~catalog /\ ~leftover

\* C17: whenever Chroma.from_documents is about to build, from a construction
\* or from a rebuild, the store directory holds nothing.
C17_BuildOnEmptyLocation ==
    \A p \in Procs : pc[p] = "from_documents" => DirectoryEmpty

\* C18: a query that retrieved from a store holding fewer than k entries, and
\* so got as many documents as the store holds, is not an error and yields one
\* source per entry, at most k.
C18_UnderPopulatedYieldsAll ==
    \A p \in Requests :
        (/\ kind[p] = "query" /\ pc[p] = "done"
         /\ docs[p] # <<>> /\ Len(docs[p]) < RETRIEVER_K) =>
            /\ resp[p].status # "error"
            /\ Len(result[p].sources) = Len(docs[p])
            /\ Len(result[p].sources) <= RETRIEVER_K

\* C19: GET /health always answers 200: "unhealthy" with vectorstore_ready
\* false when getting the engine raised, "healthy" with vectorstore_ready true
\* otherwise; every engine get_rag_engine returned has its store handle and its
\* chain set, also after a failed rebuild.
C19_HealthNeverFails ==
    [][/\ \A p \in Requests :
             (kind[p] = "health" /\ Running(p) /\ pc'[p] = "done") =>
                 /\ resp'[p].code = 200
                 /\ IF pc[p] = "got"
                    THEN resp'[p].status = "healthy" /\ resp'[p].ready
                    ELSE resp'[p].status = "unhealthy" /\ ~resp'[p].ready
       /\ \A p \in Procs : pc'[p] = "got" => Built(self'[p])]_vars

\* a health check answered healthy and ready after a rebuild has failed
C19_Witness ==
    /\ rebuildFailed
    /\ \E p \in Requests :
          /\ kind[p] = "health" /\ pc[p] = "done"
          /\ resp[p].status = "healthy" /\ resp[p].ready

====
